---- MODULE Spec2Model ----
(***************************************************************************)
(* Model of the "places to visit" page: the list view                      *)
(* (src/routes/places/+page.svelte), the create form (AddPlaceForm.svelte) *)
(* and the hosted table "places" both of them call.                        *)
(*                                                                         *)
(* The page runs on one UI event loop: a handler runs from its start to    *)
(* its first await, and from the arrival of the awaited response to its    *)
(* end, without interleaving.  Each of those two pieces is one action.     *)
(* A remote call is a request record that the backend processes in one     *)
(* step (stage "sent" -> "ok" / "err") and whose response is handled in a  *)
(* later step, so that requests and responses of different calls           *)
(* interleave freely.  confirm() and alert() block the event loop and are  *)
(* part of the action that calls them.                                     *)
(*                                                                         *)
(* Text is a sequence of one-character strings, so that trim() is          *)
(* computed and not assumed.  Identifiers are the positive naturals in     *)
(* the order the backend assigns them; Null (0) is no identifier.          *)
(***************************************************************************)
EXTENDS Integers, Sequences, FiniteSets, Bags, TLC

(* ------------------------------ bounds --------------------------------- *)
MaxCalls == 3        \* remote calls the user starts in one run, after onMount's

(* ----------------------------- constants ------------------------------- *)
Null == 0
NoMsg == "null"
RequiredMsg == "Name is required."
AddFallbackMsg == "Failed to add place. Please try again."
FetchFallbackMsg == "Failed to fetch places."
SuccessMsg == "Successfully added"

\* e.message of a failed call; "" is falsy and takes the fallback
ErrTexts == {"", "E"}

\* what the user may have typed into the form when an event arrives: nothing,
\* a blank name, a name with a leading blank
FormFills ==
  { <<<<>>, <<>>, <<>>>>,
    <<<<" ">>, <<"x">>, <<"y">>>>,
    <<<<" ", "a">>, <<"x">>, <<"y">>>> }

(* ------------------------------ helpers -------------------------------- *)
IsSpace(c) == c = " "

RECURSIVE TrimStart(_)
TrimStart(s) ==
  IF s = <<>> THEN s
  ELSE IF IsSpace(Head(s)) THEN TrimStart(Tail(s)) ELSE s

RECURSIVE TrimEnd(_)
TrimEnd(s) ==
  IF s = <<>> THEN s
  ELSE IF IsSpace(s[Len(s)]) THEN TrimEnd(SubSeq(s, 1, Len(s) - 1)) ELSE s

\* a check of !name in place of !name.trim()
Trim_None(s) == s

\* String.prototype.trim
Trim(s) == TrimEnd(TrimStart(s))

\* e.message || fallback
OrElse(msg, fallback) == IF msg = "" THEN fallback ELSE msg

\* places.filter(p => p.id !== id)
WithoutId(s, id) == LET Keep(p) == p.id # id IN SelectSeq(s, Keep)

\* places.map(p => p.id === id ? { ...p, visited: v[p.visited] } : p)
MapVisited(s, id, v) ==
  [i \in 1..Len(s) |-> IF s[i].id = id THEN [s[i] EXCEPT !.visited = v[s[i].visited]]
                                       ELSE s[i]]

\* the calls in flight of one kind form a bag: two calls may be equal
Put(B, r) == B (+) SetToBag({r})
Take(B, r) == B (-) SetToBag({r})
InFlight(B) == BagCardinality(B)

(* ------------------------------- state --------------------------------- *)
VARIABLES
  \* list view (+page.svelte)
  places, loading, error, updatingStatusFor, deletingPlaceId,
  \* create form (AddPlaceForm.svelte)
  name, location, description, adding, errorMessage, successMessage,
  \* the event loop: pending message-clear timers, the dialog of the last step
  \* (an alert raised, or a confirm() the user declined),
  \* the remote calls started so far
  timers, alerted, issued,
  \* the hosted table and the calls in flight
  table, nextId, fetchReqs, insertReqs, toggleReqs, deleteReqs

listVars == <<places, loading, error, updatingStatusFor, deletingPlaceId>>
formVars == <<name, location, description, adding, errorMessage, successMessage>>
loopVars == <<timers, alerted, issued>>
netVars == <<table, nextId, fetchReqs, insertReqs, toggleReqs, deleteReqs>>
vars == <<listVars, formVars, loopVars, netVars>>

NoAlert == [kind |-> "none", name |-> <<>>, msg |-> ""]

\* a row of the table "places"
Place(id, n, l, d, v) ==
  [id |-> id, created_at |-> id, name |-> n, location |-> l,
   description |-> d, visited |-> v]

\* .select('*').order('created_at', { ascending: false })
RECURSIVE SelectAll(_)
SelectAll(T) ==
  IF T = {} THEN <<>>
  ELSE LET newest == CHOOSE r \in T : \A q \in T : q.created_at <= r.created_at
       IN  <<newest>> \o SelectAll(T \ {newest})

\* the rows the table holds when the page is opened, unless it is empty
InitTable == {Place(1, <<"a">>, <<>>, <<>>, FALSE), Place(2, <<"b">>, <<>>, <<>>, TRUE)}

\* which branch of {#if} the list view renders
View ==
  IF loading /\ Len(places) = 0 THEN "loading"
  ELSE IF error # NoMsg THEN "error"
  ELSE IF Len(places) = 0 THEN "empty"
  ELSE "list"

ToggleBtnDisabled(p) == updatingStatusFor = p.id \/ deletingPlaceId # Null
DeleteBtnDisabled(p) == deletingPlaceId = p.id \/ updatingStatusFor # Null

(* ---------------------- construction and onMount ----------------------- *)
Init ==
  /\ places = <<>>
  /\ loading = TRUE
  /\ error = NoMsg
  /\ updatingStatusFor = Null
  /\ deletingPlaceId = Null
  /\ name = <<>>
  /\ location = <<>>
  /\ description = <<>>
  /\ adding = FALSE
  /\ errorMessage = NoMsg
  /\ successMessage = NoMsg
  /\ timers = 0
  /\ issued = 0
  /\ alerted = NoAlert
  /\ \E T \in {{}, InitTable} :
       /\ table = T
       /\ nextId = Cardinality(T) + 1
  /\ fetchReqs = SetToBag({[stage |-> "sent", data |-> <<>>]})
  /\ insertReqs = EmptyBag
  /\ toggleReqs = EmptyBag
  /\ deleteReqs = EmptyBag

(* ------------------------------ backend -------------------------------- *)
\* the service answers a select: the rows, newest first, or an error
BackendSelect ==
  \E r \in BagToSet(fetchReqs) :
    /\ r.stage = "sent"
    /\ \/ fetchReqs' = Put(Take(fetchReqs, r),
                           [r EXCEPT !.stage = "ok", !.data = SelectAll(table)])
       \/ fetchReqs' = Put(Take(fetchReqs, r), [r EXCEPT !.stage = "err"])
    /\ alerted' = NoAlert
    /\ UNCHANGED <<issued, listVars, formVars, timers, table, nextId,
                   insertReqs, toggleReqs, deleteReqs>>

\* the service answers an insert: the stored row, or an error
BackendInsert ==
  \E r \in BagToSet(insertReqs) :
    /\ r.stage = "sent"
    /\ \/ LET row == Place(nextId, r.name, r.location, r.description, FALSE)
          IN  /\ table' = table \cup {row}
              /\ nextId' = nextId + 1
              /\ insertReqs' = Put(Take(insertReqs, r),
                                   [r EXCEPT !.stage = "ok", !.row = row])
       \/ /\ insertReqs' = Put(Take(insertReqs, r), [r EXCEPT !.stage = "err"])
          /\ UNCHANGED <<table, nextId>>
    /\ alerted' = NoAlert
    /\ UNCHANGED <<issued, listVars, formVars, timers, fetchReqs, toggleReqs, deleteReqs>>

\* the service answers update({ visited: !originalStatus }).eq('id', id)
BackendUpdate ==
  \E r \in BagToSet(toggleReqs) :
    /\ r.stage = "sent"
    /\ \/ /\ table' = {IF q.id = r.id
                       THEN [q EXCEPT !.visited = ~r.originalStatus] ELSE q
                        : q \in table}
          /\ toggleReqs' = Put(Take(toggleReqs, r), [r EXCEPT !.stage = "ok"])
       \/ /\ toggleReqs' = Put(Take(toggleReqs, r), [r EXCEPT !.stage = "err"])
          /\ UNCHANGED table
    /\ alerted' = NoAlert
    /\ UNCHANGED <<issued, listVars, formVars, timers, nextId,
                   fetchReqs, insertReqs, deleteReqs>>

\* the service answers delete().eq('id', id)
BackendDelete ==
  \E r \in BagToSet(deleteReqs) :
    /\ r.stage = "sent"
    /\ \/ /\ table' = {q \in table : q.id # r.id}
          /\ deleteReqs' = Put(Take(deleteReqs, r), [r EXCEPT !.stage = "ok"])
       \/ /\ deleteReqs' = Put(Take(deleteReqs, r), [r EXCEPT !.stage = "err"])
          /\ UNCHANGED table
    /\ alerted' = NoAlert
    /\ UNCHANGED <<issued, listVars, formVars, timers, nextId,
                   fetchReqs, insertReqs, toggleReqs>>

(* ------------------------ list view: fetchPlaces ----------------------- *)
\* the "Try Again" button: fetchPlaces up to its await
ClickTryAgain ==
  /\ View = "error"
  /\ issued < MaxCalls
  /\ issued' = issued + 1
  /\ loading' = TRUE
  /\ error' = NoMsg
  /\ fetchReqs' = Put(fetchReqs, [stage |-> "sent", data |-> <<>>])
  /\ alerted' = NoAlert
  /\ UNCHANGED <<places, updatingStatusFor, deletingPlaceId, formVars, timers,
                 table, nextId, insertReqs, toggleReqs, deleteReqs>>

\* fetchPlaces after its await, the select succeeded
FetchOk ==
  \E r \in BagToSet(fetchReqs) :
    /\ r.stage = "ok"
    /\ places' = r.data
    /\ loading' = FALSE
    /\ fetchReqs' = Take(fetchReqs, r)
    /\ alerted' = NoAlert
    /\ UNCHANGED <<issued, error, updatingStatusFor, deletingPlaceId, formVars, timers,
                   table, nextId, insertReqs, toggleReqs, deleteReqs>>

\* fetchPlaces without its finally block on the failure path
FetchFail_StaysLoading ==
  \E r \in BagToSet(fetchReqs), msg \in ErrTexts :
    /\ r.stage = "err"
    /\ error' = OrElse(msg, FetchFallbackMsg)
    /\ fetchReqs' = Take(fetchReqs, r)
    /\ alerted' = NoAlert
    /\ UNCHANGED <<issued, places, loading, updatingStatusFor, deletingPlaceId,
                   formVars, timers, table, nextId, insertReqs, toggleReqs, deleteReqs>>

\* fetchPlaces after its await, the select failed
FetchFail ==
  \E r \in BagToSet(fetchReqs), msg \in ErrTexts :
    /\ r.stage = "err"
    /\ error' = OrElse(msg, FetchFallbackMsg)
    /\ loading' = FALSE
    /\ fetchReqs' = Take(fetchReqs, r)
    /\ alerted' = NoAlert
    /\ UNCHANGED <<issued, places, updatingStatusFor, deletingPlaceId, formVars, timers,
                   table, nextId, insertReqs, toggleReqs, deleteReqs>>

\* the created row appended in place of prepended
HandlePlaceAdded_Append(newPlace) == places' = Append(places, newPlace)

\* handlePlaceAdded: the created row is prepended
HandlePlaceAdded(newPlace) == places' = <<newPlace>> \o places

(* ----------------------- create form: handleSubmit --------------------- *)
\* the inputs without disabled={adding}
TypeFields_WhileAdding ==
  /\ \E f \in FormFills :
       /\ <<name, location, description>> # f
       /\ name' = f[1]
       /\ location' = f[2]
       /\ description' = f[3]
  /\ alerted' = NoAlert
  /\ UNCHANGED <<issued, listVars, adding, errorMessage, successMessage, timers, netVars>>

\* bind:value of the three inputs, each disabled={adding}
TypeFields ==
  /\ ~adding
  /\ \E f \in FormFills :
       /\ <<name, location, description>> # f
       /\ name' = f[1]
       /\ location' = f[2]
       /\ description' = f[3]
  /\ alerted' = NoAlert
  /\ UNCHANGED <<issued, listVars, adding, errorMessage, successMessage, timers, netVars>>

\* handleSubmit when !name.trim(): the early return.  The name input is
\* required, so the browser sends no submit event while it is empty; a
\* whitespace-only name reaches the handler.
SubmitRejected ==
  /\ ~adding                           \* the submit button is disabled={adding}
  /\ name # <<>>                       \* <input id="name" ... required>
  /\ Trim(name) = <<>>
  /\ errorMessage' = RequiredMsg
  /\ alerted' = NoAlert
  /\ UNCHANGED <<issued, listVars, name, location, description, adding,
                 successMessage, timers, netVars>>

\* the submit control without disabled={adding}
SubmitIssued_NotDisabled ==
  /\ Trim(name) # <<>>
  /\ issued < MaxCalls
  /\ issued' = issued + 1
  /\ adding' = TRUE
  /\ errorMessage' = NoMsg
  /\ successMessage' = NoMsg
  /\ insertReqs' = Put(insertReqs,
       [stage |-> "sent", name |-> name, location |-> location,
        description |-> description, row |-> Place(Null, <<>>, <<>>, <<>>, FALSE)])
  /\ alerted' = NoAlert
  /\ UNCHANGED <<listVars, name, location, description, timers,
                 table, nextId, fetchReqs, toggleReqs, deleteReqs>>

\* handleSubmit up to its await: the insert is issued
SubmitIssued ==
  /\ ~adding
  /\ Trim(name) # <<>>
  /\ issued < MaxCalls
  /\ issued' = issued + 1
  /\ adding' = TRUE
  /\ errorMessage' = NoMsg
  /\ successMessage' = NoMsg
  /\ insertReqs' = Put(insertReqs,
       [stage |-> "sent", name |-> name, location |-> location,
        description |-> description, row |-> Place(Null, <<>>, <<>>, <<>>, FALSE)])
  /\ alerted' = NoAlert
  /\ UNCHANGED <<listVars, name, location, description, timers,
                 table, nextId, fetchReqs, toggleReqs, deleteReqs>>

\* handleSubmit after its await, the insert returned its row; the dispatch
\* of placeAdded runs handlePlaceAdded before the finally block
InsertOk ==
  \E r \in BagToSet(insertReqs) :
    /\ r.stage = "ok"
    /\ successMessage' = SuccessMsg
    /\ name' = <<>>
    /\ location' = <<>>
    /\ description' = <<>>
    /\ HandlePlaceAdded(r.row)
    /\ adding' = FALSE
    /\ timers' = timers + 1
    /\ insertReqs' = Take(insertReqs, r)
    /\ alerted' = NoAlert
    /\ UNCHANGED <<issued, loading, error, updatingStatusFor, deletingPlaceId,
                   errorMessage, table, nextId, fetchReqs, toggleReqs, deleteReqs>>

\* handleSubmit after its await, the insert failed
InsertFail ==
  \E r \in BagToSet(insertReqs), msg \in ErrTexts :
    /\ r.stage = "err"
    /\ errorMessage' = OrElse(msg, AddFallbackMsg)
    /\ adding' = FALSE
    /\ timers' = timers + 1
    /\ insertReqs' = Take(insertReqs, r)
    /\ alerted' = NoAlert
    /\ UNCHANGED <<issued, listVars, name, location, description, successMessage,
                   table, nextId, fetchReqs, toggleReqs, deleteReqs>>

\* the setTimeout callback of handleSubmit
TimerFire ==
  /\ timers > 0
  /\ timers' = timers - 1
  /\ successMessage' = NoMsg
  /\ errorMessage' = NoMsg
  /\ alerted' = NoAlert
  /\ UNCHANGED <<issued, listVars, name, location, description, adding, netVars>>

(* -------------------- list view: toggleVisitedStatus ------------------- *)
\* toggleVisitedStatus(place) up to its await
ToggleVisitedStatus(place) ==
  IF updatingStatusFor = place.id
  THEN UNCHANGED <<places, updatingStatusFor, toggleReqs, issued>>
  ELSE LET originalStatus == place.visited
           Flip == [b \in BOOLEAN |-> ~b]
       IN  /\ updatingStatusFor' = place.id
           /\ issued' = issued + 1
           /\ places' = MapVisited(places, place.id, Flip)
           /\ toggleReqs' = Put(toggleReqs,
                [stage |-> "sent", id |-> place.id, name |-> place.name,
                 originalStatus |-> originalStatus])

\* a click on the toggle-visited button of a listed place
ClickToggle ==
  \E i \in 1..Len(places) :
    /\ View = "list"
    /\ ~ToggleBtnDisabled(places[i])
    /\ issued < MaxCalls
    /\ ToggleVisitedStatus(places[i])
    /\ alerted' = NoAlert
    /\ UNCHANGED <<loading, error, deletingPlaceId, formVars, timers,
                   table, nextId, fetchReqs, insertReqs, deleteReqs>>

\* toggleVisitedStatus after its await, the update succeeded
ToggleOk ==
  \E r \in BagToSet(toggleReqs) :
    /\ r.stage = "ok"
    /\ updatingStatusFor' = Null
    /\ toggleReqs' = Take(toggleReqs, r)
    /\ alerted' = NoAlert
    /\ UNCHANGED <<issued, places, loading, error, deletingPlaceId, formVars, timers,
                   table, nextId, fetchReqs, insertReqs, deleteReqs>>

\* the catch block without the revert of the optimistic flip
ToggleFail_NoRevert ==
  \E r \in BagToSet(toggleReqs), msg \in {"E"} :
    /\ r.stage = "err"
    /\ alerted' = [kind |-> "toggle", name |-> r.name, msg |-> msg]
    /\ updatingStatusFor' = Null
    /\ toggleReqs' = Take(toggleReqs, r)
    /\ UNCHANGED <<issued, places, loading, error, deletingPlaceId, formVars, timers,
                   table, nextId, fetchReqs, insertReqs, deleteReqs>>

\* toggleVisitedStatus without its finally block on the failure path
ToggleFail_KeepsMarker ==
  \E r \in BagToSet(toggleReqs), msg \in {"E"} :
    /\ r.stage = "err"
    /\ LET Orig == [b \in BOOLEAN |-> r.originalStatus]
       IN  places' = MapVisited(places, r.id, Orig)
    /\ alerted' = [kind |-> "toggle", name |-> r.name, msg |-> msg]
    /\ toggleReqs' = Take(toggleReqs, r)
    /\ UNCHANGED <<issued, updatingStatusFor, loading, error, deletingPlaceId,
                   formVars, timers, table, nextId, fetchReqs, insertReqs, deleteReqs>>

\* toggleVisitedStatus after its await, the update failed
ToggleFail ==
  \E r \in BagToSet(toggleReqs), msg \in {"E"} :
    /\ r.stage = "err"
    /\ LET Orig == [b \in BOOLEAN |-> r.originalStatus]
       IN  places' = MapVisited(places, r.id, Orig)
    /\ alerted' = [kind |-> "toggle", name |-> r.name, msg |-> msg]
    /\ updatingStatusFor' = Null
    /\ toggleReqs' = Take(toggleReqs, r)
    /\ UNCHANGED <<issued, loading, error, deletingPlaceId, formVars, timers,
                   table, nextId, fetchReqs, insertReqs, deleteReqs>>

(* ------------------------ list view: deletePlace ----------------------- *)
\* the rollback snapshot taken after the optimistic removal
DeletePlace_SnapshotAfter(placeToDelete, confirmed) ==
  IF deletingPlaceId = placeToDelete.id \/ ~confirmed
  THEN UNCHANGED <<places, deletingPlaceId, deleteReqs, issued>>
  ELSE LET originalPlaces == WithoutId(places, placeToDelete.id)
       IN  /\ deletingPlaceId' = placeToDelete.id
           /\ issued' = issued + 1
           /\ places' = WithoutId(places, placeToDelete.id)
           /\ deleteReqs' = Put(deleteReqs,
                [stage |-> "sent", id |-> placeToDelete.id,
                 name |-> placeToDelete.name, originalPlaces |-> originalPlaces])

\* deletePlace without the return on a declined confirm()
DeletePlace_NoConfirm(placeToDelete, confirmed) ==
  IF deletingPlaceId = placeToDelete.id
  THEN UNCHANGED <<places, deletingPlaceId, deleteReqs, issued>>
  ELSE LET originalPlaces == places
       IN  /\ deletingPlaceId' = placeToDelete.id
           /\ issued' = issued + 1
           /\ places' = WithoutId(places, placeToDelete.id)
           /\ deleteReqs' = Put(deleteReqs,
                [stage |-> "sent", id |-> placeToDelete.id,
                 name |-> placeToDelete.name, originalPlaces |-> originalPlaces])

\* deletePlace(placeToDelete) up to its await; confirmed is confirm()'s answer
DeletePlace(placeToDelete, confirmed) ==
  IF deletingPlaceId = placeToDelete.id \/ ~confirmed
  THEN UNCHANGED <<places, deletingPlaceId, deleteReqs, issued>>
  ELSE LET originalPlaces == places
       IN  /\ deletingPlaceId' = placeToDelete.id
           /\ issued' = issued + 1
           /\ places' = WithoutId(places, placeToDelete.id)
           /\ deleteReqs' = Put(deleteReqs,
                [stage |-> "sent", id |-> placeToDelete.id,
                 name |-> placeToDelete.name, originalPlaces |-> originalPlaces])

\* a click on the delete button of a listed place
ClickDelete ==
  \E i \in 1..Len(places), confirmed \in BOOLEAN :
    /\ View = "list"
    /\ ~DeleteBtnDisabled(places[i])
    /\ issued < MaxCalls
    /\ DeletePlace(places[i], confirmed)
    /\ alerted' = IF confirmed THEN NoAlert
                  ELSE [kind |-> "declined", name |-> places[i].name, msg |-> ""]
    /\ UNCHANGED <<loading, error, updatingStatusFor, formVars, timers,
                   table, nextId, fetchReqs, insertReqs, toggleReqs>>

\* deletePlace after its await, the delete succeeded
DeleteOk ==
  \E r \in BagToSet(deleteReqs) :
    /\ r.stage = "ok"
    /\ deletingPlaceId' = Null
    /\ deleteReqs' = Take(deleteReqs, r)
    /\ alerted' = NoAlert
    /\ UNCHANGED <<issued, places, loading, error, updatingStatusFor, formVars, timers,
                   table, nextId, fetchReqs, insertReqs, toggleReqs>>

\* deletePlace after its await, the delete failed
DeleteFail ==
  \E r \in BagToSet(deleteReqs), msg \in {"E"} :
    /\ r.stage = "err"
    /\ places' = r.originalPlaces
    /\ alerted' = [kind |-> "delete", name |-> r.name, msg |-> msg]
    /\ deletingPlaceId' = Null
    /\ deleteReqs' = Take(deleteReqs, r)
    /\ UNCHANGED <<issued, loading, error, updatingStatusFor, formVars, timers,
                   table, nextId, fetchReqs, insertReqs, toggleReqs>>

(* --------------------------- specification ----------------------------- *)
Next ==
  \/ BackendSelect \/ BackendInsert \/ BackendUpdate \/ BackendDelete
  \/ ClickTryAgain \/ FetchOk \/ FetchFail
  \/ TypeFields
  \/ SubmitRejected \/ SubmitIssued \/ InsertOk \/ InsertFail \/ TimerFire
  \/ ClickToggle \/ ToggleOk \/ ToggleFail
  \/ ClickDelete \/ DeleteOk \/ DeleteFail

Spec == Init /\ [][Next]_vars

FairSpec ==
  /\ Spec
  /\ WF_vars(TimerFire)
  /\ WF_vars(BackendSelect) /\ WF_vars(BackendInsert)
  /\ WF_vars(BackendUpdate) /\ WF_vars(BackendDelete)
  /\ WF_vars(FetchOk) /\ WF_vars(FetchFail)
  /\ WF_vars(InsertOk) /\ WF_vars(InsertFail)
  /\ WF_vars(ToggleOk) /\ WF_vars(ToggleFail)
  /\ WF_vars(DeleteOk) /\ WF_vars(DeleteFail)

(* ------------------------- vocabulary of the claims -------------------- *)
RECURSIVE CopiesOver(_, _)
CopiesOver(B, S) ==
  IF S = {} THEN 0
  ELSE LET r == CHOOSE x \in S : TRUE
       IN  CopiesIn(r, B) + CopiesOver(B, S \ {r})

\* the toggle updates in flight for the record id
TogglesInFlightFor(id) ==
  CopiesOver(toggleReqs, {r \in BagToSet(toggleReqs) : r.id = id})

ToggleStarted == InFlight(toggleReqs') > InFlight(toggleReqs)
DeleteStarted == InFlight(deleteReqs') > InFlight(deleteReqs)

\* the entries of s whose id is not id, in the order of s
RECURSIVE Remaining(_, _)
Remaining(s, id) ==
  IF Len(s) = 0 THEN <<>>
  ELSE IF s[1].id = id THEN Remaining(Tail(s), id)
       ELSE <<s[1]>> \o Remaining(Tail(s), id)

\* s and t hold the same records in the same order, up to the visited flags
SameButVisited(s, t) ==
  /\ Len(s) = Len(t)
  /\ \A j \in 1..Len(s) : [s[j] EXCEPT !.visited = TRUE] = [t[j] EXCEPT !.visited = TRUE]

IsBlank(s) == \A j \in 1..Len(s) : s[j] = " "

MessageShown == errorMessage # NoMsg \/ successMessage # NoMsg

(* ------------------------------- claims -------------------------------- *)
\* C1: while a toggle update is in flight no delete starts, and while a
\* delete is in flight no toggle starts.
C1_ToggleDeleteExclusive ==
  [][ /\ InFlight(toggleReqs) > 0 => ~DeleteStarted
      /\ InFlight(deleteReqs) > 0 => ~ToggleStarted ]_vars

\* C2: at most one toggle update is in flight across the whole list.
C2_OneToggleInFlight == InFlight(toggleReqs) <= 1

\* C3: there are never two toggle updates in flight for the same record.
C3_OneTogglePerRecord ==
  \A r \in BagToSet(toggleReqs) : TogglesInFlightFor(r.id) <= 1

\* C4: at most one delete is in flight.
C4_OneDeleteInFlight == InFlight(deleteReqs) <= 1

\* C5: a toggle on a listed record r flips the visited flag of r in the step
\* that issues the update, for the value the update carries, and leaves the
\* rest of the list as it was; the step that handles a failed update of r
\* leaves r with the value it had before that toggle started, changes
\* nothing else of the list, and raises an alert.
C5_ToggleOptimisticAndRevert ==
  [][ /\ ToggleStarted =>
           \E i \in 1..Len(places) :
             /\ toggleReqs' = Put(toggleReqs,
                  [stage |-> "sent", id |-> places[i].id, name |-> places[i].name,
                   originalStatus |-> places[i].visited])
             /\ SameButVisited(places, places')
             /\ \A j \in 1..Len(places) :
                  places'[j].visited =
                    IF places[j].id = places[i].id THEN ~places[j].visited
                                                   ELSE places[j].visited
      /\ \A r \in BagToSet(toggleReqs) :
           r.stage = "err" /\ toggleReqs' = Take(toggleReqs, r) =>
             /\ SameButVisited(places, places')
             /\ \A j \in 1..Len(places) :
                  places'[j].visited =
                    IF places[j].id = r.id THEN r.originalStatus
                                           ELSE places[j].visited
             /\ alerted'.kind = "toggle" /\ alerted'.name = r.name ]_vars

\* C5 witness: a failed toggle has just been handled and its record is listed
C5_Witness ==
  /\ alerted.kind = "toggle"
  /\ \E j \in 1..Len(places) : places[j].name = alerted.name

\* C6: a confirmed delete of r removes r from the list in the step that
\* issues the remote delete and keeps the other records in order; the step
\* that handles a failed delete puts back the list as it was before that
\* removal and raises an alert.
C6_DeleteOptimisticAndRestore ==
  [][ /\ DeleteStarted =>
           \E i \in 1..Len(places) :
             /\ deleteReqs' = Put(deleteReqs,
                  [stage |-> "sent", id |-> places[i].id, name |-> places[i].name,
                   originalPlaces |-> places])
             /\ places' = Remaining(places, places[i].id)
      /\ \A r \in BagToSet(deleteReqs) :
           r.stage = "err" /\ deleteReqs' = Take(deleteReqs, r) =>
             /\ places' = r.originalPlaces
             /\ alerted'.kind = "delete" /\ alerted'.name = r.name ]_vars

\* C6 witness: a failed delete has just been handled and the record is back
C6_Witness ==
  /\ alerted.kind = "delete"
  /\ Len(places) >= 2
  /\ \E j \in 1..Len(places) : places[j].name = alerted.name

\* C7: the step that handles a successful insert empties the three fields,
\* sets the success message and puts the returned row at the head of the
\* list, before the records held so far.
C7_CreateSuccess ==
  [][ \A r \in BagToSet(insertReqs) :
        r.stage = "ok" /\ insertReqs' = Take(insertReqs, r) =>
          /\ name' = <<>> /\ location' = <<>> /\ description' = <<>>
          /\ successMessage' = SuccessMsg
          /\ places' = <<r.row>> \o places ]_vars

\* C7 witness: the created row heads a list that held records before
C7_Witness ==
  /\ successMessage = SuccessMsg
  /\ name = <<>> /\ location = <<>> /\ description = <<>>
  /\ Len(places) >= 2
  /\ places[1].name = <<" ", "a">>
  /\ places[1].location = <<"x">>

\* C8: a submit with an empty or whitespace-only name issues no insert, sets
\* the required-field error, leaves adding false and leaves the fields and
\* the list as they were.
C8_BlankNameRejected ==
  [][ (SubmitRejected \/ SubmitIssued) /\ IsBlank(name) =>
        /\ errorMessage' = RequiredMsg
        /\ ~adding /\ ~adding'
        /\ UNCHANGED <<name, location, description, places, insertReqs, issued>> ]_vars

\* C8 witness: a whitespace-only name was submitted and rejected
C8_Witness ==
  /\ errorMessage = RequiredMsg
  /\ name = <<" ">>
  /\ location = <<"x">>
  /\ insertReqs = EmptyBag

\* C9: the step that handles a failed insert leaves the three fields with
\* the submitted values, sets the error message to the failure text or to
\* the fallback, and leaves the list as it was.
C9_CreateFailure ==
  [][ \A r \in BagToSet(insertReqs) :
        r.stage = "err" /\ insertReqs' = Take(insertReqs, r) =>
          /\ name' = r.name /\ location' = r.location
          /\ description' = r.description
          /\ errorMessage' \in (ErrTexts \ {""}) \cup {AddFallbackMsg}
          /\ places' = places ]_vars

\* C9 witness: a failed insert was handled and the form holds what was typed
C9_Witness ==
  /\ errorMessage = AddFallbackMsg
  /\ ~adding
  /\ name = <<" ", "a">>
  /\ location = <<"x">>

\* C10: every message the form shows is eventually cleared, given that
\* scheduled timers fire and with no further user action.
C10_MessageEventuallyCleared == MessageShown ~> ~MessageShown

\* C11: at most one insert of the create form is in flight, and adding is
\* true exactly while one is.
C11_OneInsertInFlight ==
  /\ InFlight(insertReqs) <= 1
  /\ adding <=> InFlight(insertReqs) = 1

\* C11 witness: an insert is awaited while the form holds a valid name
C11_Witness ==
  /\ adding
  /\ InFlight(insertReqs) = 1
  /\ Trim(name) # <<>>
  /\ issued < MaxCalls

\* C12: a delete whose confirmation the user declines issues no remote
\* delete and changes neither the list nor the two markers.
C12_DeclinedDeleteChangesNothing ==
  [][ alerted'.kind = "declined" =>
        UNCHANGED <<places, deletingPlaceId, updatingStatusFor, deleteReqs,
                    issued, table>> ]_vars

\* C12 witness: the user has just declined the delete of a listed record
C12_Witness ==
  /\ alerted.kind = "declined"
  /\ \E j \in 1..Len(places) : places[j].name = alerted.name
  /\ deletingPlaceId = Null
  /\ deleteReqs = EmptyBag

\* the rows of s are ordered by created_at, newest first
NewestFirst(s) == \A j \in 1..(Len(s) - 1) : s[j].created_at > s[j + 1].created_at

\* C13: the step that handles a failed fetch sets the error, ends loading and
\* keeps the list; while the error is set the error view is shown and no
\* fetch is in flight; a retry clears the error and starts loading; the step
\* that handles a successful fetch replaces the list by the fetched rows in
\* the order returned (newest first) and shows the empty view for no rows.
C13_FetchOutcome ==
  /\ [](error # NoMsg => View = "error" /\ ~loading /\ fetchReqs = EmptyBag)
  /\ [][ /\ \A r \in BagToSet(fetchReqs) :
              r.stage = "err" /\ fetchReqs' = Take(fetchReqs, r) =>
                /\ error' \in (ErrTexts \ {""}) \cup {FetchFallbackMsg}
                /\ ~loading'
                /\ places' = places
         /\ error # NoMsg /\ error' # error =>
              /\ error' = NoMsg /\ loading'
              /\ places' = places
              /\ fetchReqs' = SetToBag({[stage |-> "sent", data |-> <<>>]})
         /\ \A r \in BagToSet(fetchReqs) :
              r.stage = "ok" /\ fetchReqs' = Take(fetchReqs, r) =>
                /\ places' = r.data
                /\ NewestFirst(r.data)
                /\ ~loading' /\ error' = NoMsg
                /\ (Len(r.data) = 0 <=> View' = "empty")
                /\ (Len(r.data) > 0 <=> View' = "list") ]_vars

\* C13 witness: a fetch has failed while the list holds a record, and the
\* error view is shown
C13_Witness ==
  /\ error = FetchFallbackMsg
  /\ Len(places) > 0
  /\ View = "error"

\* no remote call awaits its response handler
Quiescent ==
  /\ fetchReqs = EmptyBag /\ insertReqs = EmptyBag
  /\ toggleReqs = EmptyBag /\ deleteReqs = EmptyBag

\* the last list fetch has completed and succeeded
Fetched == ~loading /\ error = NoMsg

\* C14: with no call in flight after a successful fetch, the list holds
\* exactly the rows of the table, each once and with the table's visited flag.
C14_QuiescentConsistency ==
  Quiescent /\ Fetched =>
    /\ Len(places) = Cardinality(table)
    /\ {<<places[j].id, places[j].visited>> : j \in 1..Len(places)}
         = {<<q.id, q.visited>> : q \in table}

\* C15: no two entries of the list carry the same id.
C15_UniqueIds ==
  \A i, j \in 1..Len(places) : places[i].id = places[j].id => i = j

\* the ids of the rows the backend has stored and deleted again
DeletedIds == {id \in 1..(nextId - 1) : \A q \in table : q.id # id}

\* C16: a record whose remote delete has succeeded, and whose delete
\* responses have all been handled, is not in the list.
C16_DeletedStaysGone ==
  \A id \in DeletedIds :
    (\A r \in BagToSet(deleteReqs) : r.id # id) =>
      \A j \in 1..Len(places) : places[j].id # id

\* C17: with no remote call in flight both markers are null and adding is
\* false; and, remote calls returning, the toggles, the deletes and the
\* submission in flight are eventually all completed.
C17_GuardsReleased ==
  /\ [](Quiescent => updatingStatusFor = Null /\ deletingPlaceId = Null /\ ~adding)
  /\ [](toggleReqs = EmptyBag => updatingStatusFor = Null)
  /\ [](deleteReqs = EmptyBag => deletingPlaceId = Null)
  /\ (toggleReqs # EmptyBag ~> toggleReqs = EmptyBag)
  /\ (deleteReqs # EmptyBag ~> deleteReqs = EmptyBag)
  /\ (insertReqs # EmptyBag ~> insertReqs = EmptyBag)

\* C17 witness: the calls started have all completed, a toggle the last
C17_Witness ==
  /\ Quiescent
  /\ issued = MaxCalls
  /\ alerted.kind = "toggle"
  /\ updatingStatusFor = Null

\* C18: a timer clears only the message of the submission that scheduled
\* it.  All timers have the same delay, so they fire in the order they were
\* scheduled; a message of the try block belongs to the submission that
\* scheduled the newest timer, the required-field message to a submission
\* that scheduled none.  So a timer that fires while another is pending, or
\* while the required-field message is shown, clears no message.
C18_OwnTimerClears ==
  [][ timers' = timers - 1 /\ MessageShown =>
        timers = 1 /\ errorMessage # RequiredMsg ]_vars

\* C19: the form never shows a success and an error message together.
C19_OneMessage == ~(successMessage # NoMsg /\ errorMessage # NoMsg)

====
